---- MODULE Spec2Model ----
(***************************************************************************)
(* A model of the bytecode compiler and virtual machine: Chunk (chunk.rs), *)
(* Compiler (compiler.rs), Vm (vm.rs) and the read-eval-print loop         *)
(* (main.rs).  The compiler's recursive descent is modelled with an        *)
(* explicit stack of frames, one frame per active call.                    *)
(***************************************************************************)
EXTENDS Integers, Sequences, FiniteSets, TLC

VARIABLES
  pc,                 \* position of the process: "read", "compile", "run", "returned", "aborted"
  tokens,             \* Compiler.tokens
  position,           \* Compiler.position (0-based, as in the code)
  is_in_error_state,  \* Compiler.is_in_error_state
  chunk,              \* Compiler.chunk
  frames,             \* the active calls of the compiler, innermost last
  reported,           \* the messages Compiler::error has printed
  ip,                 \* Vm.ip (0-based)
  stack,              \* Vm.stack, back of the deque last
  globals,            \* Vm.globals
  runChunk,           \* the chunk handed to the current Vm::run
  result,             \* the InterpretResult of the last run
  output,             \* the values printed on stdout by Print and by main
  panic,              \* the panic message when the process has aborted
  reads,              \* history: the number of inputs read so far
  compileBase,        \* history: code.len() when the current compile call began
  executed,           \* history: the instruction indexes executed by the current run
  depths,             \* history: the stack's length before each of them
  results,            \* history: the tags of the results main has received from run
  stmts,              \* history: the passes of compile's loop that matched a statement
  reportedAtSync,     \* history: the messages printed when compile began or last synchronized
  calls,              \* history: the write and write_constant calls made on a chunk by hand
  offset,             \* disassemble_chunk's offset
  listing             \* the rows disassemble_instruction has printed

vars == <<pc, tokens, position, is_in_error_state, chunk, frames, reported,
          ip, stack, globals, runChunk, result, output, panic,
          reads, compileBase, executed, depths, results, stmts, reportedAtSync,
          calls, offset, listing>>

compileHist == <<compileBase, stmts, reportedAtSync>>
compilerVars == <<tokens, position, is_in_error_state, chunk, frames, reported, compileHist>>
vmVars == <<ip, stack, globals, runChunk, result, output, executed, depths, results>>
toolVars == <<calls, offset, listing>>

----------------------------------------------------------------------------
(* Bounds of the model *)

\* the number of inputs the read-eval-print loop reads
MaxInputs == 2

\* the compile loop stops emitting when the chunk holds this many instructions
MaxCode == 14

----------------------------------------------------------------------------
(* value.rs: Value.  Every variant is a record of the same shape.  A number *)
(* is the rational num/den in lowest terms with den >= 0; den = 0 encodes   *)
(* the IEEE values the f64 division produces: num = 1 or -1 an infinity,    *)
(* num = 0 NaN.  Rounding and signed zero are not modelled.                 *)

Number(n, d) == [tag |-> "Number", num |-> n, den |-> d, b |-> FALSE, name |-> << >>]
Boolean(x) == [tag |-> "Boolean", num |-> 0, den |-> 1, b |-> x, name |-> << >>]
Identifier(s) == [tag |-> "Identifier", num |-> 0, den |-> 1, b |-> FALSE, name |-> s]
Nil == [tag |-> "Nil", num |-> 0, den |-> 1, b |-> FALSE, name |-> << >>]

Abs(n) == IF n < 0 THEN -n ELSE n
Sign(n) == IF n < 0 THEN -1 ELSE IF n = 0 THEN 0 ELSE 1

RECURSIVE Gcd(_, _)
Gcd(a, b) == IF b = 0 THEN a ELSE Gcd(b, a % b)

\* the number n/d in lowest terms
Norm(n, d) ==
  IF d = 0 THEN Number(Sign(n), 0)
  ELSE LET s == IF d < 0 THEN -1 ELSE 1
           g == Gcd(Abs(n), Abs(d))
       IN Number((s * n) \div g, (s * d) \div g)

NumNeg(a) == Number(-a.num, a.den)

NumAdd(a, b) ==
  IF a.den = 0 /\ b.den = 0
    THEN (IF a.num = b.num THEN a ELSE Number(0, 0))
  ELSE IF a.den = 0 THEN a
  ELSE IF b.den = 0 THEN b
  ELSE Norm(a.num * b.den + b.num * a.den, a.den * b.den)

NumSub(a, b) == NumAdd(a, NumNeg(b))

NumMul(a, b) == Norm(a.num * b.num, a.den * b.den)

NumDiv(a, b) ==
  IF a.den * b.num = 0
    THEN (IF a.den = 0 /\ b.den = 0 THEN Number(0, 0)
          ELSE IF b.num = 0 THEN Number(Sign(a.num), 0)
          ELSE Number(Sign(a.num) * Sign(b.num), 0))
  ELSE Norm(a.num * b.den, a.den * b.num)

----------------------------------------------------------------------------
(* chunk.rs: OpCode and Chunk *)

Op(name) == [op |-> name, idx |-> 0, b |-> FALSE]
OpIdx(name, i) == [op |-> name, idx |-> i, b |-> FALSE]
OpBoolean(x) == [op |-> "Boolean", idx |-> 0, b |-> x]

Chunk_new == [code |-> << >>, constants |-> << >>, lines |-> << >>]

\* a write that forgets the line
write_noline(c, opcode, line) == [c EXCEPT !.code = Append(@, opcode)]

write(c, opcode, line) ==
  [c EXCEPT !.code = Append(@, opcode), !.lines = Append(@, line)]

\* a write_constant whose index is constants.len() after the push
write_constant_len(c, opname, value, line) ==
  [code |-> Append(c.code, OpIdx(opname, Len(c.constants) + 1)),
   constants |-> Append(c.constants, value),
   lines |-> Append(c.lines, line)]

\* a write_constant that puts the value at the front of the pool
write_constant_front(c, opname, value, line) ==
  [code |-> Append(c.code, OpIdx(opname, 0)),
   constants |-> <<value>> \o c.constants,
   lines |-> Append(c.lines, line)]

\* the constant index is 0-based: constants.len() - 1 after the push
write_constant(c, opname, value, line) ==
  [code |-> Append(c.code, OpIdx(opname, Len(c.constants) + 1 - 1)),
   constants |-> Append(c.constants, value),
   lines |-> Append(c.lines, line)]

----------------------------------------------------------------------------
(* Tokens.  A token is its variant tag, its payload (the characters of a   *)
(* Number or of an Identifier, the character of an Illegal) and the line   *)
(* of its source location.                                                 *)

Tok(t) == [type |-> t, lexeme |-> << >>, line |-> 1]
TokNumber(chars) == [type |-> "Number", lexeme |-> chars, line |-> 1]
TokIdentifier(chars) == [type |-> "Identifier", lexeme |-> chars, line |-> 1]
TokIllegal(char) == [type |-> "Illegal", lexeme |-> <<char>>, line |-> 1]

(* compiler.rs: Precedences *)
NONE == 1
ASSIGNMENT == 2
OR == 3
AND == 4
EQUALITY == 5
COMPARISON == 6
TERM == 7
FACTOR == 8
UNARY == 9
CALL == 10
PRIMARY == 11

token_precedence(token) ==
  CASE token.type = "Assign" -> ASSIGNMENT
    [] token.type = "Or" -> OR
    [] token.type = "And" -> AND
    [] token.type \in {"Equal", "NotEqual"} -> EQUALITY
    [] token.type \in {"GreaterThan", "LessThan", "GreaterThanOrEqual", "LessThanOrEqual"}
         -> COMPARISON
    [] token.type \in {"Plus", "Minus"} -> TERM
    [] token.type \in {"Star", "Slash"} -> FACTOR
    [] token.type = "Dot" -> CALL
    [] OTHER -> NONE

\* Compiler::new: the two dispatch tables, keyed by the token's variant tag
prefix_parselets ==
  [t \in {"True", "False", "Nil", "Number", "Identifier"} |->
     IF t = "Identifier" THEN "variable" ELSE "literal"]

infix_parselets == [t \in {"Plus"} |-> "binary"]

\* str::parse::<f64> on decimal text: digits with at most one '.'
DigitValue ==
  [c \in {"0", "1", "2", "3", "4", "5", "6", "7", "8", "9"} |->
     CASE c = "0" -> 0 [] c = "1" -> 1 [] c = "2" -> 2 [] c = "3" -> 3 [] c = "4" -> 4
       [] c = "5" -> 5 [] c = "6" -> 6 [] c = "7" -> 7 [] c = "8" -> 8 [] c = "9" -> 9]

RECURSIVE ParseDigits(_, _, _, _, _, _)
ParseDigits(chars, i, num, den, seenDot, seenDigit) ==
  IF i > Len(chars)
    THEN [ok |-> seenDigit, value |-> Norm(num, den)]
  ELSE IF chars[i] = "."
    THEN (IF seenDot THEN [ok |-> FALSE, value |-> Nil]
          ELSE ParseDigits(chars, i + 1, num, den, TRUE, seenDigit))
  ELSE IF chars[i] \in DOMAIN DigitValue
    THEN ParseDigits(chars, i + 1, num * 10 + DigitValue[chars[i]],
                     IF seenDot THEN den * 10 ELSE den, seenDot, TRUE)
  ELSE [ok |-> FALSE, value |-> Nil]

ParseF64(chars) == ParseDigits(chars, 1, 0, 1, FALSE, FALSE)

----------------------------------------------------------------------------
(* compiler.rs: the Compiler's fields as one record, and its helpers as    *)
(* operators from record to record.  panic is "none" until a panic.        *)

Frame(f) == [fn |-> f, at |-> 0, prec |-> NONE, op |-> "", line |-> 0, name |-> << >>]

S == [tokens |-> tokens, position |-> position, err |-> is_in_error_state,
      chunk |-> chunk, frames |-> frames, reported |-> reported, panic |-> "none"]

InRange(s) == s.position < Len(s.tokens)

\* self.tokens[self.position]
TokenAt(s) == s.tokens[s.position + 1]

OutOfBounds(s) == [s EXCEPT !.panic = "index out of bounds"]

reset(s) == [s EXCEPT !.position = 0, !.err = FALSE]

\* an error that prints whatever the flag
error_always(s, message) == [s EXCEPT !.err = TRUE, !.reported = Append(@, message)]

error(s, message) ==
  IF s.err THEN s
  ELSE [s EXCEPT !.err = TRUE, !.reported = Append(@, message)]

ExpectedMessage(expected, token) ==
  [msg |-> "expected", expected |-> expected, got |-> token.type, line |-> token.line]

ExpectedExpression == [msg |-> "expected expression", expected |-> "", got |-> "", line |-> 0]

\* a consume that steps over the token it did not expect
consume_skip(s, expected) ==
  IF s.panic # "none" THEN [s |-> s, some |-> FALSE, token |-> Tok("")]
  ELSE IF ~InRange(s) THEN [s |-> OutOfBounds(s), some |-> FALSE, token |-> Tok("")]
  ELSE IF TokenAt(s).type # expected
    THEN [s |-> [error(s, ExpectedMessage(expected, TokenAt(s))) EXCEPT !.position = @ + 1],
          some |-> FALSE, token |-> Tok("")]
  ELSE [s |-> [s EXCEPT !.position = @ + 1], some |-> TRUE, token |-> TokenAt(s)]

\* consume: the state after the call, and the Option it returns
consume(s, expected) ==
  IF s.panic # "none" THEN [s |-> s, some |-> FALSE, token |-> Tok("")]
  ELSE IF ~InRange(s) THEN [s |-> OutOfBounds(s), some |-> FALSE, token |-> Tok("")]
  ELSE IF TokenAt(s).type # expected
    THEN [s |-> error(s, ExpectedMessage(expected, TokenAt(s))), some |-> FALSE,
          token |-> Tok("")]
  ELSE [s |-> [s EXCEPT !.position = @ + 1], some |-> TRUE, token |-> TokenAt(s)]

consume_current_token(s) == [s EXCEPT !.position = @ + 1]

advance(s) == [s EXCEPT !.position = @ + 1]

\* boundary tokens without the end of input
Boundary_NoEof == {"Class", "Function", "Let", "For", "If", "While", "Print", "Return"}

Boundary == {"Eof", "Class", "Function", "Let", "For", "If", "While", "Print", "Return"}

RECURSIVE SynchronizeLoop(_)
SynchronizeLoop(s) ==
  IF ~InRange(s) THEN OutOfBounds(s)
  ELSE IF TokenAt(s).type \in Boundary THEN s
  ELSE SynchronizeLoop(advance(s))

synchronize(s) == SynchronizeLoop([s EXCEPT !.err = FALSE])

Top(s) == s.frames[Len(s.frames)]
Return(s) == [s EXCEPT !.frames = SubSeq(@, 1, Len(@) - 1)]
Call(s, frame) == [s EXCEPT !.frames = Append(@, frame)]
At(s, label) == [s EXCEPT !.frames[Len(s.frames)].at = label]

\* expression(): parse_precedence(Precedences::ASSIGNMENT)
expression(s) == Call(s, [Frame("parse_precedence") EXCEPT !.prec = ASSIGNMENT])

----------------------------------------------------------------------------
(* compiler.rs: the handlers, one operator per stretch of a handler        *)
(* between two calls.  Each takes the compiler whose innermost frame is    *)
(* the handler's and gives the compiler after the stretch.                 *)

Panicked(s, message) == [s EXCEPT !.panic = message]

\* compile, the head of the loop: recovery when the error flag is set
compile_head(s) == IF s.err THEN synchronize(s) ELSE s

\* compile, the match on the current token (every arm but Eof)
compile_statement(s0) ==
  LET s == compile_head(s0) IN
  IF s.panic # "none" THEN s
  ELSE IF ~InRange(s) THEN OutOfBounds(s)
  ELSE CASE TokenAt(s).type = "Print" -> Call(s, Frame("print_statement"))
         [] TokenAt(s).type = "Let" -> Call(s, Frame("let_declaration"))
         [] TokenAt(s).type = "Illegal" -> Panicked(s, "illegal character")
         [] OTHER -> Call(s, Frame("expression_statement"))

\* compile, the Eof arm: return self.chunk.clone()
compile_return(s0) == Return(compile_head(s0))

print_statement_begin(s) ==
  LET r == consume(s, "Print") IN
  IF r.s.panic # "none" THEN r.s ELSE expression(At(r.s, 1))

print_statement_end(s) ==
  IF ~InRange(s) THEN OutOfBounds(s)
  ELSE Return([s EXCEPT !.chunk = write(@, Op("Print"), TokenAt(s).line)])

expression_statement_begin(s) == expression(At(s, 1))

\* an expression_statement that writes no Pop
expression_statement_end_nopop(s) == Return(s)

expression_statement_end(s) ==
  IF ~InRange(s) THEN OutOfBounds(s)
  ELSE Return([s EXCEPT !.chunk = write(@, Op("Pop"), TokenAt(s).line)])

let_declaration_begin(s) ==
  LET r1 == consume(s, "Let")
      r2 == consume(r1.s, "Identifier")
  IN IF r2.s.panic # "none" THEN r2.s
     ELSE IF ~r2.some THEN Return(r2.s)
     ELSE LET identifier == r2.token
              r3 == consume(r2.s, "Assign")
          IN IF r3.s.panic # "none" THEN r3.s
             ELSE expression([r3.s EXCEPT !.frames[Len(s.frames)].at = 1,
                                          !.frames[Len(s.frames)].name = identifier.lexeme,
                                          !.frames[Len(s.frames)].line = identifier.line])

let_declaration_end(s) ==
  Return([s EXCEPT !.chunk = write_constant(@, "DefineGlobalVariable",
                                            Identifier(Top(s).name), Top(s).line)])

parse_precedence_prefix(s) ==
  IF ~InRange(s) THEN OutOfBounds(s)
  ELSE IF TokenAt(s).type \notin DOMAIN prefix_parselets
    THEN Return(error(s, ExpectedExpression))
  ELSE Call(At(s, 1), Frame(prefix_parselets[TokenAt(s).type]))

parse_precedence_infix(s) ==
  IF ~InRange(s) THEN OutOfBounds(s)
  ELSE IF Top(s).prec <= token_precedence(TokenAt(s))
    THEN (IF TokenAt(s).type \notin DOMAIN infix_parselets
            THEN Panicked(s, "called Option::unwrap() on a None value")
          ELSE Call(s, Frame(infix_parselets[TokenAt(s).type])))
  ELSE Return(s)

literal(s) ==
  IF ~InRange(s) THEN OutOfBounds(s)
  ELSE LET token == TokenAt(s)
           s1 == consume_current_token(s)
       IN CASE token.type = "False" ->
                 Return([s1 EXCEPT !.chunk = write(@, OpBoolean(FALSE), token.line)])
            [] token.type = "True" ->
                 Return([s1 EXCEPT !.chunk = write(@, OpBoolean(TRUE), token.line)])
            [] token.type = "Nil" ->
                 Return([s1 EXCEPT !.chunk = write(@, Op("Nil"), token.line)])
            [] token.type = "Number" ->
                 LET parsed == ParseF64(token.lexeme) IN
                 IF parsed.ok
                   THEN Return([s1 EXCEPT !.chunk =
                                  write_constant(@, "Constant", parsed.value, token.line)])
                 ELSE Panicked(s1, "ParseFloatError")
            [] OTHER -> Panicked(s1, "unexpected token")

\* a variable that writes its identifier as the constant of a Constant
variable_as_constant(s) ==
  IF ~InRange(s) THEN OutOfBounds(s)
  ELSE LET token == TokenAt(s)
           s1 == consume_current_token(s)
       IN Return([s1 EXCEPT !.chunk =
                    write_constant(@, "Constant", Identifier(token.lexeme), token.line)])

variable(s) ==
  IF ~InRange(s) THEN OutOfBounds(s)
  ELSE LET token == TokenAt(s)
           s1 == consume_current_token(s)
       IN IF token.type = "Identifier"
            THEN Return([s1 EXCEPT !.chunk =
                           write_constant(@, "AccessGlobalVariable",
                                          Identifier(token.lexeme), token.line)])
          ELSE Panicked(s1, "unexpected token")

\* binary: the operand's precedence and the opcode of each operator it matches
BinaryArm(type) ==
  CASE type = "Plus" -> [prec |-> TERM, op |-> "Add"]
    [] type = "Minus" -> [prec |-> TERM, op |-> "Subtract"]
    [] type = "Slash" -> [prec |-> FACTOR, op |-> "Divide"]
    [] type = "Star" -> [prec |-> FACTOR, op |-> "Multiply"]
    [] OTHER -> [prec |-> NONE, op |-> ""]

binary_begin(s) ==
  IF ~InRange(s) THEN OutOfBounds(s)
  ELSE LET token == TokenAt(s)
           s1 == consume_current_token(s)
           arm == BinaryArm(token.type)
       IN IF arm.op = "" THEN Panicked(s1, "unexpected token")
          ELSE Call([s1 EXCEPT !.frames[Len(s.frames)].at = 1,
                               !.frames[Len(s.frames)].op = arm.op,
                               !.frames[Len(s.frames)].line = token.line],
                    [Frame("parse_precedence") EXCEPT !.prec = arm.prec])

binary_end(s) == Return([s EXCEPT !.chunk = write(@, Op(Top(s).op), Top(s).line)])

----------------------------------------------------------------------------
(* disassembler.rs *)

\* a row of the listing: the offset, the line or "|" (same), and, once the
\* instruction is printed, the opcode and the constant of an indexed one
Row(at, same, line) ==
  [offset |-> at, same |-> same, line |-> line, printed |-> FALSE,
   opcode |-> Op(""), indexed |-> FALSE, value |-> Nil]

indexed_instruction(row, opcode, value, at) ==
  [offset |-> at + 1, panic |-> "none",
   row |-> [row EXCEPT !.printed = TRUE, !.opcode = opcode, !.indexed = TRUE,
                       !.value = value]]

simple_instruction(row, opcode, at) ==
  [offset |-> at + 1, panic |-> "none",
   row |-> [row EXCEPT !.printed = TRUE, !.opcode = opcode]]

\* a disassemble_instruction that steps over two instructions
disassemble_instruction_two(c, at) ==
  [offset |-> at + 2, panic |-> "none", row |-> Row(at, FALSE, 0)]

\* disassemble_instruction: the offset it returns and the row it prints; an
\* index past the end of lines or of constants panics
disassemble_instruction(c, at) ==
  IF at >= Len(c.lines)
    THEN [offset |-> at, panic |-> "index out of bounds", row |-> Row(at, FALSE, 0)]
  ELSE LET same == at > 0 /\ c.lines[at + 1] = c.lines[at]
           row == Row(at, same, IF same THEN 0 ELSE c.lines[at + 1])
           instruction == c.code[at + 1]
       IN IF instruction.op \in {"Constant", "DefineGlobalVariable"}
            THEN (IF instruction.idx >= Len(c.constants)
                    THEN [offset |-> at, panic |-> "index out of bounds", row |-> row]
                  ELSE indexed_instruction(row, instruction,
                                           c.constants[instruction.idx + 1], at))
          ELSE simple_instruction(row, instruction, at)

----------------------------------------------------------------------------
(* vm.rs: Vm and InterpretResult *)

\* A key handed to HashMap::get or insert: a String (its characters) or a usize.
\* The table's keys are Strings; a usize equals none of them.
StringKey(chars) == [kind |-> "String", s |-> chars, i |-> 0]
UsizeKey(n) == [kind |-> "usize", s |-> << >>, i |-> n]

NoKey == [kind |-> "", s |-> << >>, i |-> 0]

NoResult == [tag |-> "None", some |-> FALSE, value |-> Nil, msg |-> "", arg |-> NoKey]
Ok(option) == [tag |-> "Ok", some |-> option.some, value |-> option.value,
               msg |-> "", arg |-> NoKey]
RuntimeError(message, key) ==
  [tag |-> "RuntimeError", some |-> FALSE, value |-> Nil, msg |-> message, arg |-> key]

None == [some |-> FALSE, value |-> Nil]
Some(v) == [some |-> TRUE, value |-> v]

EmptyGlobals == [k \in {} |-> Nil]

Vm_new == [ip |-> 0, stack |-> << >>, globals |-> EmptyGlobals]

back(st) == IF st = << >> THEN None ELSE Some(st[Len(st)])
pop_back(st) == IF st = << >> THEN st ELSE SubSeq(st, 1, Len(st) - 1)
push_back(st, v) == Append(st, v)

insert(g, key, v) == [k \in DOMAIN g \cup {key} |-> IF k = key THEN v ELSE g[k]]
get(g, key) == IF key \in DOMAIN g THEN Some(g[key]) ELSE None

\* The Vm during a run: its fields, what it printed, and how the run stands
\* ("running", "returned", or the panic message in panic).
V == [ip |-> ip, stack |-> stack, globals |-> globals, output |-> output,
      result |-> result, status |-> "running", panic |-> "none"]

VmPanic(v, message) == [v EXCEPT !.status = "panicked", !.panic = message]
VmReturn(v, res) == [v EXCEPT !.status = "returned", !.result = res]

Arith(op, a, b) ==
  CASE op = "Add" -> NumAdd(a, b)
    [] op = "Subtract" -> NumSub(a, b)
    [] op = "Multiply" -> NumMul(a, b)
    [] op = "Divide" -> NumDiv(a, b)


\* arms that take the operands in the other order: b op a
exec_binary_swapped(v, op) ==
  IF Len(v.stack) < 2 THEN VmPanic(v, "called Option::unwrap() on a None value")
  ELSE LET b == v.stack[Len(v.stack)]
           a == v.stack[Len(v.stack) - 1]
           rest == pop_back(pop_back(v.stack))
       IN IF a.tag = "Number" /\ b.tag = "Number"
            THEN [v EXCEPT !.stack = push_back(rest, Arith(op, b, a))]
          ELSE VmPanic([v EXCEPT !.stack = rest], "Operands must be numbers")

\* the arms of Add, Subtract, Multiply and Divide: b is popped first, then a
exec_binary(v, op) ==
  IF Len(v.stack) = 0 THEN VmPanic(v, "called Option::unwrap() on a None value")
  ELSE IF Len(v.stack) = 1
    THEN VmPanic([v EXCEPT !.stack = pop_back(@)], "called Option::unwrap() on a None value")
  ELSE LET b == v.stack[Len(v.stack)]
           a == v.stack[Len(v.stack) - 1]
           rest == pop_back(pop_back(v.stack))
       IN IF a.tag = "Number" /\ b.tag = "Number"
            THEN [v EXCEPT !.stack = push_back(rest, Arith(op, a, b))]
          ELSE VmPanic([v EXCEPT !.stack = rest], "Operands must be numbers")

exec_negate(v) ==
  IF v.stack = << >> THEN VmPanic(v, "called Option::unwrap() on a None value")
  ELSE LET operand == v.stack[Len(v.stack)] IN
       IF operand.tag = "Number"
         THEN [v EXCEPT !.stack = push_back(pop_back(@), NumNeg(operand))]
       ELSE VmPanic([v EXCEPT !.stack = pop_back(@)], "Operand must be a number")

exec_constant(v, ch, index) ==
  IF index >= Len(ch.constants) THEN VmPanic(v, "index out of bounds")
  ELSE [v EXCEPT !.stack = push_back(@, ch.constants[index + 1])]

exec_print(v) ==
  IF v.stack = << >> THEN VmPanic(v, "called Option::unwrap() on a None value")
  ELSE [v EXCEPT !.output = Append(@, v.stack[Len(v.stack)]), !.stack = pop_back(@)]

\* a DefineGlobalVariable that leaves the value on the stack
exec_define_global_keep(v, ch, index) ==
  IF index >= Len(ch.constants) \/ v.stack = << >> THEN VmPanic(v, "panic")
  ELSE [v EXCEPT !.globals = insert(@, StringKey(ch.constants[index + 1].name),
                                    v.stack[Len(v.stack)])]

exec_define_global(v, ch, index) ==
  IF index >= Len(ch.constants) THEN VmPanic(v, "index out of bounds")
  ELSE LET constant == ch.constants[index + 1] IN
       IF constant.tag = "Identifier"
         THEN (IF v.stack = << >>
                 THEN VmPanic(v, "called Option::unwrap() on a None value")
               ELSE [v EXCEPT !.globals = insert(@, StringKey(constant.name),
                                                 v.stack[Len(v.stack)]),
                              !.stack = pop_back(@)])
       ELSE VmPanic(v, "expected global variable name")

\* the operand, a usize, is the key looked up and the name in the message
exec_access_global(v, variable_name) ==
  LET found == get(v.globals, UsizeKey(variable_name)) IN
  IF ~found.some
    THEN VmReturn(v, RuntimeError("undefined variable", UsizeKey(variable_name)))
  ELSE [v EXCEPT !.stack = push_back(@, found.value)]

\* a Return that pops and goes on
exec_return_continue(v) == [v EXCEPT !.stack = pop_back(@)]

\* the arm of Return: return InterpretResult::Ok(self.stack.pop_back())
exec_return(v) == VmReturn([v EXCEPT !.stack = pop_back(@)], Ok(back(v.stack)))

\* one iteration of run's loop: fetch, self.ip += 1, execute
run_step(v0, ch) ==
  LET instruction == ch.code[v0.ip + 1]
      v == [v0 EXCEPT !.ip = @ + 1]
  IN CASE instruction.op = "Return" -> exec_return(v)
       [] instruction.op = "Constant" -> exec_constant(v, ch, instruction.idx)
       [] instruction.op = "Negate" -> exec_negate(v)
       [] instruction.op \in {"Add", "Subtract", "Multiply", "Divide"} ->
            exec_binary(v, instruction.op)
       [] instruction.op = "Nil" -> [v EXCEPT !.stack = push_back(@, Nil)]
       [] instruction.op = "Boolean" ->
            [v EXCEPT !.stack = push_back(@, Boolean(instruction.b))]
       [] instruction.op = "Print" -> exec_print(v)
       [] instruction.op = "Pop" -> [v EXCEPT !.stack = pop_back(@)]
       [] instruction.op = "DefineGlobalVariable" ->
            exec_define_global(v, ch, instruction.idx)
       [] instruction.op = "AccessGlobalVariable" ->
            exec_access_global(v, instruction.idx)

\* the loop's exit: return InterpretResult::Ok(self.stack.pop_back())
run_end(v) == VmReturn([v EXCEPT !.stack = pop_back(@)], Ok(back(v.stack)))

\* a run that begins from a fresh Vm
run_entry_fresh(vm) == Vm_new

\* a run that begins at instruction 0
run_entry_rewind(vm) == [vm EXCEPT !.ip = 0]

\* run's entry: the Vm goes on from the fields the last run left
run_entry(vm) == vm

----------------------------------------------------------------------------
(* The inputs of the read-eval-print loop: the token streams lexer::lex    *)
(* gives for the lines below, each ended by Eof.                           *)

X == TokIdentifier(<<"x">>)
Y == TokIdentifier(<<"y">>)
N1 == TokNumber(<<"1">>)
N2 == TokNumber(<<"2">>)
N3 == TokNumber(<<"3">>)
N5 == TokNumber(<<"5">>)
Eof == Tok("Eof")

\* let x = 5; print x;
Src_LetPrint ==
  <<Tok("Let"), X, Tok("Assign"), N5, Tok("Semicolon"), Tok("Print"), X, Tok("Semicolon"), Eof>>
\* 1 + 2 * 3
Src_AddMul == <<N1, Tok("Plus"), N2, Tok("Star"), N3, Eof>>
\* a + b + c
Src_AddAdd(a, b, c) == <<a, Tok("Plus"), b, Tok("Plus"), c, Eof>>
\* -(1+2)
Src_NegGroup ==
  <<Tok("Minus"), Tok("LeftParen"), N1, Tok("Plus"), N2, Tok("RightParen"), Eof>>
\* print y;
Src_PrintY == <<Tok("Print"), Y, Tok("Semicolon"), Eof>>
\* print y 1
Src_PrintY1 == <<Tok("Print"), Y, N1, Eof>>
\* let y = 1.5
Src_LetY == <<Tok("Let"), Y, Tok("Assign"), TokNumber(<<"1", ".", "5">>), Eof>>
\* let x = 2
Src_LetX2 == <<Tok("Let"), X, Tok("Assign"), N2, Eof>>
\* let x 5
Src_LetNoAssign == <<Tok("Let"), X, N5, Eof>>
\* let 5
Src_LetNoName == <<Tok("Let"), N5, Eof>>
\* print
Src_PrintNothing == <<Tok("Print"), Eof>>
\* print 1 + 2
Src_PrintSum == <<Tok("Print"), N1, Tok("Plus"), N2, Eof>>
\* true + 1
Src_TruePlus1 == <<Tok("True"), Tok("Plus"), N1, Eof>>
\* nil false
Src_NilFalse == <<Tok("Nil"), Tok("False"), Eof>>
\* class
Src_Class == <<Tok("Class"), Eof>>
\* 1 - 2
Src_Minus == <<N1, Tok("Minus"), N2, Eof>>
\* @
Src_Illegal == <<TokIllegal("@"), Eof>>
\* let x 5 - 1
Src_LetNoAssignMinus == <<Tok("Let"), X, N5, Tok("Minus"), N1, Eof>>
\* 1 + y
Src_OnePlusY == <<N1, Tok("Plus"), Y, Eof>>
\* let x
Src_LetX == <<Tok("Let"), X, Eof>>
\* let x 5 class
Src_LetNoAssignClass == <<Tok("Let"), X, N5, Tok("Class"), Eof>>

Inputs ==
  {Src_LetPrint, Src_AddMul, Src_AddAdd(N1, N2, N3), Src_AddAdd(X, N1, Y), Src_NegGroup,
   Src_PrintY, Src_PrintY1, Src_LetY, Src_LetX2, Src_LetNoAssign, Src_LetNoName,
   Src_PrintNothing, Src_PrintSum, Src_TruePlus1, Src_NilFalse, Src_Class, Src_Minus,
   Src_Illegal, Src_LetNoAssignMinus, Src_LetNoAssignClass, Src_LetX,
   Src_OnePlusY}

----------------------------------------------------------------------------
(* The state machine *)

Init ==
  /\ pc = "read"
  /\ tokens = << >>
  /\ position = 0
  /\ is_in_error_state = FALSE
  /\ chunk = Chunk_new
  /\ frames = << >>
  /\ reported = << >>
  /\ ip = Vm_new.ip
  /\ stack = Vm_new.stack
  /\ globals = Vm_new.globals
  /\ runChunk = Chunk_new
  /\ result = NoResult
  /\ output = << >>
  /\ panic = "none"
  /\ reads = 0
  /\ compileBase = 0
  /\ executed = << >>
  /\ depths = << >>
  /\ results = << >>
  /\ stmts = << >>
  /\ reportedAtSync = 0
  /\ calls = << >>
  /\ offset = 0
  /\ listing = << >>

\* the compiler's fields after a stretch of a handler; a panic ends the process
SetCompiler(s) ==
  /\ tokens' = s.tokens
  /\ position' = s.position
  /\ is_in_error_state' = s.err
  /\ chunk' = s.chunk
  /\ frames' = s.frames
  /\ reported' = s.reported
  /\ pc' = IF s.panic = "none" THEN pc ELSE "aborted"
  /\ panic' = s.panic

\* the Vm's fields after a stretch of run
SetVm(v) ==
  /\ ip' = v.ip
  /\ stack' = v.stack
  /\ globals' = v.globals
  /\ output' = v.output
  /\ result' = v.result
  /\ pc' = CASE v.status = "running" -> "run"
             [] v.status = "returned" -> "returned"
             [] v.status = "panicked" -> "aborted"
  /\ panic' = v.panic

InHandler(f, label) ==
  /\ pc = "compile"
  /\ frames # << >>
  /\ Top(S).fn = f
  /\ Top(S).at = label

\* main: read a line, lex it, and call compile on the tokens: reset, then
\* self.tokens = tokens
ReadLine ==
  /\ pc = "read"
  /\ reads < MaxInputs
  /\ \E input \in Inputs :
       /\ tokens' = input
       /\ position' = reset(S).position
       /\ is_in_error_state' = reset(S).err
  /\ frames' = <<Frame("compile")>>
  /\ pc' = "compile"
  /\ reads' = reads + 1
  /\ compileBase' = Len(chunk.code)
  /\ reportedAtSync' = Len(reported)
  /\ UNCHANGED <<chunk, reported, panic, stmts, vmVars, toolVars>>

AtEof ==
  /\ compile_head(S).panic = "none"
  /\ InRange(compile_head(S))
  /\ TokenAt(compile_head(S)).type = "Eof"

\* history: the statement of the last pass ends where the loop is now; it is
\* clean when no message was printed since it began
Closed(st) ==
  IF st = << >> THEN st
  ELSE LET last == st[Len(st)] IN
       IF last.open
         THEN [st EXCEPT ![Len(st)].open = FALSE,
                         ![Len(st)].to = Len(chunk.code),
                         ![Len(st)].clean = (Len(reported) = last.rep)]
       ELSE st

\* history: a pass of the loop that matches a statement at the code's end
Opened(s) ==
  [read |-> reads, pos |-> s.position, from |-> Len(chunk.code), to |-> Len(chunk.code),
   rep |-> Len(reported), clean |-> FALSE, open |-> TRUE]

Synchronized == IF is_in_error_state THEN Len(reported) ELSE reportedAtSync

CompileStatement ==
  /\ InHandler("compile", 0)
  /\ ~AtEof
  /\ Len(chunk.code) < MaxCode
  /\ SetCompiler(compile_statement(S))
  /\ stmts' = Append(Closed(stmts), Opened(compile_head(S)))
  /\ reportedAtSync' = Synchronized
  /\ UNCHANGED <<vmVars, reads, compileBase, toolVars>>

\* compile returns the chunk's clone and main hands it to Vm::run
CompileReturn ==
  /\ InHandler("compile", 0)
  /\ AtEof
  /\ LET s == compile_return(S)
         vm == run_entry([ip |-> ip, stack |-> stack, globals |-> globals])
     IN /\ tokens' = s.tokens
        /\ position' = s.position
        /\ is_in_error_state' = s.err
        /\ chunk' = s.chunk
        /\ frames' = s.frames
        /\ reported' = s.reported
        /\ runChunk' = s.chunk
        /\ ip' = vm.ip
        /\ stack' = vm.stack
        /\ globals' = vm.globals
  /\ pc' = "run"
  /\ executed' = << >>
  /\ depths' = << >>
  /\ stmts' = Closed(stmts)
  /\ reportedAtSync' = Synchronized
  /\ UNCHANGED <<result, output, panic, reads, compileBase, results, toolVars>>

PrintStatementBegin ==
  /\ InHandler("print_statement", 0)
  /\ SetCompiler(print_statement_begin(S))
  /\ UNCHANGED <<vmVars, reads, compileHist, toolVars>>

PrintStatementEnd ==
  /\ InHandler("print_statement", 1)
  /\ SetCompiler(print_statement_end(S))
  /\ UNCHANGED <<vmVars, reads, compileHist, toolVars>>

ExpressionStatementBegin ==
  /\ InHandler("expression_statement", 0)
  /\ SetCompiler(expression_statement_begin(S))
  /\ UNCHANGED <<vmVars, reads, compileHist, toolVars>>

ExpressionStatementEnd ==
  /\ InHandler("expression_statement", 1)
  /\ SetCompiler(expression_statement_end(S))
  /\ UNCHANGED <<vmVars, reads, compileHist, toolVars>>

LetDeclarationBegin ==
  /\ InHandler("let_declaration", 0)
  /\ SetCompiler(let_declaration_begin(S))
  /\ UNCHANGED <<vmVars, reads, compileHist, toolVars>>

LetDeclarationEnd ==
  /\ InHandler("let_declaration", 1)
  /\ SetCompiler(let_declaration_end(S))
  /\ UNCHANGED <<vmVars, reads, compileHist, toolVars>>

ParsePrecedencePrefix ==
  /\ InHandler("parse_precedence", 0)
  /\ SetCompiler(parse_precedence_prefix(S))
  /\ UNCHANGED <<vmVars, reads, compileHist, toolVars>>

ParsePrecedenceInfix ==
  /\ InHandler("parse_precedence", 1)
  /\ SetCompiler(parse_precedence_infix(S))
  /\ UNCHANGED <<vmVars, reads, compileHist, toolVars>>

Literal ==
  /\ InHandler("literal", 0)
  /\ SetCompiler(literal(S))
  /\ UNCHANGED <<vmVars, reads, compileHist, toolVars>>

Variable ==
  /\ InHandler("variable", 0)
  /\ SetCompiler(variable(S))
  /\ UNCHANGED <<vmVars, reads, compileHist, toolVars>>

BinaryBegin ==
  /\ InHandler("binary", 0)
  /\ SetCompiler(binary_begin(S))
  /\ UNCHANGED <<vmVars, reads, compileHist, toolVars>>

BinaryEnd ==
  /\ InHandler("binary", 1)
  /\ SetCompiler(binary_end(S))
  /\ UNCHANGED <<vmVars, reads, compileHist, toolVars>>

\* one iteration of the loop of Vm::run
RunStep ==
  /\ pc = "run"
  /\ ip < Len(runChunk.code)
  /\ SetVm(run_step(V, runChunk))
  /\ executed' = Append(executed, ip)
  /\ depths' = Append(depths, Len(stack))
  /\ UNCHANGED <<compilerVars, runChunk, reads, results, toolVars>>

\* the loop of Vm::run ends: the instruction pointer has reached code.len()
RunEnd ==
  /\ pc = "run"
  /\ ip >= Len(runChunk.code)
  /\ SetVm(run_end(V))
  /\ UNCHANGED <<compilerVars, runChunk, executed, depths, reads, results, toolVars>>

\* main: print the value of an Ok(Some(value)) and loop
MainResult ==
  /\ pc = "returned"
  /\ output' = IF result.tag = "Ok" /\ result.some THEN Append(output, result.value)
               ELSE output
  /\ pc' = "read"
  /\ results' = Append(results, result.tag)
  /\ UNCHANGED <<compilerVars, ip, stack, globals, runChunk, result, executed, depths,
                 panic, reads, toolVars>>

Next ==
  \/ ReadLine
  \/ CompileStatement
  \/ CompileReturn
  \/ PrintStatementBegin
  \/ PrintStatementEnd
  \/ ExpressionStatementBegin
  \/ ExpressionStatementEnd
  \/ LetDeclarationBegin
  \/ LetDeclarationEnd
  \/ ParsePrecedencePrefix
  \/ ParsePrecedenceInfix
  \/ Literal
  \/ Variable
  \/ BinaryBegin
  \/ BinaryEnd
  \/ RunStep
  \/ RunEnd
  \/ MainResult

Spec == Init /\ [][Next]_vars

----------------------------------------------------------------------------
(* Vm::run on chunks built with Chunk::write and Chunk::write_constant:    *)
(* every chunk of at most MaxChunkLen instructions over Items, run on a    *)
(* fresh Vm.                                                               *)

MaxChunkLen == 3

\* one call of write (ctor = "") or of write_constant
Item(ctor, opcode, value) == [ctor |-> ctor, opcode |-> opcode, value |-> value]

Items ==
  {Item("", Op(o), Nil) :
     o \in {"Negate", "Add", "Subtract", "Multiply", "Divide", "Nil", "Print", "Pop", "Return"}}
  \cup {Item("", OpBoolean(TRUE), Nil)}
  \cup {Item("Constant", Op(""), Number(n, 1)) : n \in {1, 2}}
  \cup {Item(c, Op(""), Identifier(<<"x">>)) :
          c \in {"DefineGlobalVariable", "AccessGlobalVariable"}}

RECURSIVE Assemble(_)
Assemble(items) ==
  IF items = << >> THEN Chunk_new
  ELSE LET c == Assemble(SubSeq(items, 1, Len(items) - 1))
           item == items[Len(items)]
       IN IF item.ctor = "" THEN write(c, item.opcode, 1)
          ELSE write_constant(c, item.ctor, item.value, 1)

Chunks == {Assemble(items) : items \in UNION {[1..n -> Items] : n \in 0..MaxChunkLen}}

InitVm ==
  /\ pc = "run"
  /\ runChunk \in Chunks
  /\ tokens = << >>
  /\ position = 0
  /\ is_in_error_state = FALSE
  /\ chunk = Chunk_new
  /\ frames = << >>
  /\ reported = << >>
  /\ ip = Vm_new.ip
  /\ stack = Vm_new.stack
  /\ globals = Vm_new.globals
  /\ result = NoResult
  /\ output = << >>
  /\ panic = "none"
  /\ reads = 0
  /\ compileBase = 0
  /\ executed = << >>
  /\ depths = << >>
  /\ results = << >>
  /\ stmts = << >>
  /\ reportedAtSync = 0
  /\ calls = << >>
  /\ offset = 0
  /\ listing = << >>

NextVm ==
  \/ RunStep
  \/ RunEnd

SpecVm == InitVm /\ [][NextVm]_vars

----------------------------------------------------------------------------
(* Vm::run on the chunks that define and read globals: every chunk of at   *)
(* most MaxGlobalsLen instructions over GlobalsItems, run on a fresh Vm.   *)

MaxGlobalsLen == 4

GlobalsItems ==
  {Item("", Op(o), Nil) : o \in {"Nil", "Pop"}}
  \cup {Item("Constant", Op(""), Number(n, 1)) : n \in {1, 2}}
  \cup {Item("DefineGlobalVariable", Op(""), Identifier(<<c>>)) : c \in {"x", "y"}}
  \cup {Item("AccessGlobalVariable", Op(""), Identifier(<<"x">>))}

GlobalsChunks ==
  {Assemble(items) : items \in UNION {[1..n -> GlobalsItems] : n \in 0..MaxGlobalsLen}}

InitGlobals ==
  /\ pc = "run"
  /\ runChunk \in GlobalsChunks
  /\ tokens = << >>
  /\ position = 0
  /\ is_in_error_state = FALSE
  /\ chunk = Chunk_new
  /\ frames = << >>
  /\ reported = << >>
  /\ ip = Vm_new.ip
  /\ stack = Vm_new.stack
  /\ globals = Vm_new.globals
  /\ result = NoResult
  /\ output = << >>
  /\ panic = "none"
  /\ reads = 0
  /\ compileBase = 0
  /\ executed = << >>
  /\ depths = << >>
  /\ results = << >>
  /\ stmts = << >>
  /\ reportedAtSync = 0
  /\ calls = << >>
  /\ offset = 0
  /\ listing = << >>

SpecGlobals == InitGlobals /\ [][NextVm]_vars

----------------------------------------------------------------------------
(* Chunk::write and Chunk::write_constant called by hand, as the tests of  *)
(* chunk.rs do, and disassemble_chunk on the chunk they built.             *)

\* the number of calls made on the chunk
MaxCalls == 3

\* the lines passed
Lines == {1, 2}

\* the opcodes passed to write
WriteOpcodes ==
  {Op("Return"), OpBoolean(TRUE), OpIdx("Constant", 1), OpIdx("DefineGlobalVariable", 0)}

\* the constructors and values passed to write_constant
ConstantItems ==
  {Item("Constant", Op(""), Number(1, 1)),
   Item("Constant", Op(""), Identifier(<<"x">>)),
   Item("DefineGlobalVariable", Op(""), Identifier(<<"x">>)),
   Item("AccessGlobalVariable", Op(""), Identifier(<<"x">>))}

ChunkCall(item, line) ==
  [ctor |-> item.ctor, opcode |-> item.opcode, value |-> item.value, line |-> line]

InitChunk ==
  /\ pc = "build"
  /\ runChunk = Chunk_new
  /\ tokens = << >>
  /\ position = 0
  /\ is_in_error_state = FALSE
  /\ chunk = Chunk_new
  /\ frames = << >>
  /\ reported = << >>
  /\ ip = Vm_new.ip
  /\ stack = Vm_new.stack
  /\ globals = Vm_new.globals
  /\ result = NoResult
  /\ output = << >>
  /\ panic = "none"
  /\ reads = 0
  /\ compileBase = 0
  /\ executed = << >>
  /\ depths = << >>
  /\ results = << >>
  /\ stmts = << >>
  /\ reportedAtSync = 0
  /\ calls = << >>
  /\ offset = 0
  /\ listing = << >>

notChunk == <<tokens, position, is_in_error_state, frames, reported, compileHist, vmVars, reads>>

\* chunk.write(opcode, line)
ChunkWrite ==
  /\ pc = "build"
  /\ Len(calls) < MaxCalls
  /\ \E opcode \in WriteOpcodes, line \in Lines :
       /\ chunk' = write(chunk, opcode, line)
       /\ calls' = Append(calls, ChunkCall(Item("", opcode, Nil), line))
  /\ UNCHANGED <<pc, panic, offset, listing, notChunk>>

\* chunk.write_constant(opcode, value, line)
ChunkWriteConstant ==
  /\ pc = "build"
  /\ Len(calls) < MaxCalls
  /\ \E item \in ConstantItems, line \in Lines :
       /\ chunk' = write_constant(chunk, item.ctor, item.value, line)
       /\ calls' = Append(calls, ChunkCall(item, line))
  /\ UNCHANGED <<pc, panic, offset, listing, notChunk>>

\* disassemble_chunk(&chunk): let mut offset = 0
DisassembleChunk ==
  /\ pc = "build"
  /\ pc' = "disassemble"
  /\ offset' = 0
  /\ UNCHANGED <<chunk, calls, panic, listing, notChunk>>

\* one iteration of disassemble_chunk's loop
DisassembleInstruction ==
  /\ pc = "disassemble"
  /\ offset < Len(chunk.code)
  /\ LET r == disassemble_instruction(chunk, offset)
     IN /\ offset' = r.offset
        /\ listing' = Append(listing, r.row)
        /\ panic' = r.panic
        /\ pc' = IF r.panic = "none" THEN pc ELSE "aborted"
  /\ UNCHANGED <<chunk, calls, notChunk>>

\* disassemble_chunk returns: offset has reached code.len()
DisassembleReturn ==
  /\ pc = "disassemble"
  /\ offset >= Len(chunk.code)
  /\ pc' = "disassembled"
  /\ UNCHANGED <<chunk, calls, panic, offset, listing, notChunk>>

NextChunk ==
  \/ ChunkWrite
  \/ ChunkWriteConstant
  \/ DisassembleChunk
  \/ DisassembleInstruction
  \/ DisassembleReturn

SpecChunk == InitChunk /\ [][NextChunk]_vars

----------------------------------------------------------------------------
(* Properties *)

\* the instructions the current compile call has written
EmittedCode == SubSeq(chunk.code, compileBase + 1, Len(chunk.code))

OpNames(code) == [i \in 1..Len(code) |-> code[i].op]

\* the instruction run is about to execute
Fetching == pc = "run" /\ ip < Len(runChunk.code)
Instruction == runChunk.code[ip + 1]

KeyX == StringKey(<<"x">>)

\* C1: compiling and running `let x = 5; print x;` on a fresh Compiler and Vm
\* binds x to 5 in the global table and prints 5: the run ends normally, with
\* the binding made and 5 printed.
C1_LetPrintBindsAndPrints ==
  (reads = 1 /\ tokens = Src_LetPrint) =>
    /\ pc # "aborted"
    /\ pc = "returned" =>
         /\ result.tag = "Ok"
         /\ get(globals, KeyX) = Some(Number(5, 1))
         /\ output = <<Number(5, 1)>>

\* C2: compiling `1 + 2 * 3` emits 1 2 3 Multiply Add (then the statement's
\* Pop) with the constants 1, 2, 3, and the run leaves 7 on the stack after
\* the Add.
C2_AddMulPostfix ==
  (reads = 1 /\ tokens = Src_AddMul) =>
    /\ pc # "aborted"
    /\ pc = "run" =>
         /\ OpNames(runChunk.code) =
              <<"Constant", "Constant", "Constant", "Multiply", "Add", "Pop">>
         /\ runChunk.constants = <<Number(1, 1), Number(2, 1), Number(3, 1)>>
         /\ Len(executed) = 5 => back(stack) = Some(Number(7, 1))

\* run is about to execute an arithmetic instruction or Negate whose operands
\* are on the stack and not all numbers
TypeErrorCase ==
  /\ Fetching
  /\ \/ /\ Instruction.op \in {"Add", "Subtract", "Multiply", "Divide"}
        /\ Len(stack) >= 2
        /\ \/ stack[Len(stack)].tag # "Number"
           \/ stack[Len(stack) - 1].tag # "Number"
     \/ /\ Instruction.op = "Negate"
        /\ Len(stack) >= 1
        /\ stack[Len(stack)].tag # "Number"

\* C3: an arithmetic instruction or Negate executed with a non-numeric operand
\* makes run return the runtime-error result, at that instruction.
C3_TypeErrorIsRuntimeError ==
  [][TypeErrorCase =>
       /\ pc' = "returned"
       /\ result'.tag = "RuntimeError"
       /\ ip' = ip + 1]_vars

\* run is about to execute an access-global whose identifier has no binding
UndefinedCase ==
  /\ Fetching
  /\ Instruction.op = "AccessGlobalVariable"
  /\ Instruction.idx < Len(runChunk.constants)
  /\ runChunk.constants[Instruction.idx + 1].tag = "Identifier"
  /\ StringKey(runChunk.constants[Instruction.idx + 1].name) \notin DOMAIN globals

\* C4: an access-global of an unbound identifier makes run return the runtime
\* error "undefined variable" with the variable's name; the run ends there,
\* nothing is printed, and the stack and the global table stay as they were.
C4_UndefinedVariableError ==
  [][UndefinedCase =>
       /\ pc' = "returned"
       /\ result' = RuntimeError("undefined variable",
                                 StringKey(runChunk.constants[Instruction.idx + 1].name))
       /\ stack' = stack
       /\ globals' = globals
       /\ output' = output]_vars

\* the step about to be taken is a define-global of the name of key k
DefinesNow(k) ==
  /\ Fetching
  /\ Instruction.op = "DefineGlobalVariable"
  /\ Instruction.idx < Len(runChunk.constants)
  /\ StringKey(runChunk.constants[Instruction.idx + 1].name) = k

\* C5: the global table persists across runs: a binding stays, with its
\* value, over every step (the return of a run and the start of the next
\* included) that is not a define-global of that name.
C5_GlobalsPersist ==
  [][\A k \in DOMAIN globals :
       \/ k \in DOMAIN globals' /\ globals'[k] = globals[k]
       \/ DefinesNow(k)]_vars

\* a second run starts with x bound by the first
C5_Witness ==
  /\ reads = 2
  /\ pc = "run"
  /\ executed = << >>
  /\ KeyX \in DOMAIN globals

\* C6: every run starts executing at instruction index 0 of its chunk.
C6_RunStartsAtZero == (pc = "run" /\ executed = << >>) => ip = 0

\* C7: the chunk compile returns holds only the instructions written by that
\* compile call.
C7_ChunkOnlyThisCall == pc = "run" => runChunk.code = EmittedCode

\* C8: whenever parse_precedence continues on a token because its precedence
\* is at least the minimum, an infix handler is registered for that token:
\* the lookup never fails.
C8_InfixRegistered ==
  (InHandler("parse_precedence", 1) /\ InRange(S)
     /\ Top(S).prec <= token_precedence(TokenAt(S)))
    => TokenAt(S).type \in DOMAIN infix_parselets

Operands == {N1, N2, N3, X, Y}
Load(token) == IF token.type = "Number" THEN "Constant" ELSE "AccessGlobalVariable"

\* C9: compiling a + b + c emits load a, load b, Add, load c, Add (then the
\* statement's Pop).
C9_PlusLeftAssociative ==
  \A a, b, c \in Operands :
    (tokens = Src_AddAdd(a, b, c) /\ pc = "run") =>
      OpNames(EmittedCode) = <<Load(a), Load(b), "Add", Load(c), "Add", "Pop">>

\* C10: compiling -(1+2) finds a prefix handler for the token an expression
\* starts with (Minus, then LeftParen), reports no error and emits 1 2 Add
\* Negate (then the statement's Pop); the run leaves -3 on the stack after
\* the Negate.
C10_NegateGroup ==
  (reads = 1 /\ tokens = Src_NegGroup) =>
    /\ pc # "aborted"
    /\ (InHandler("parse_precedence", 0) /\ InRange(S))
         => TokenAt(S).type \in DOMAIN prefix_parselets
    /\ reported = << >>
    /\ pc = "run" =>
         /\ OpNames(runChunk.code) = <<"Constant", "Constant", "Add", "Negate", "Pop">>
         /\ Len(executed) = 4 => back(stack) = Some(Number(-3, 1))

----------------------------------------------------------------------------
(* Error recovery, the chunk's tables, the disassembler, the stack *)

\* a message was printed since a statement of the current compile call began
ErrorInThisCall ==
  \E i \in DOMAIN stmts : stmts[i].read = reads /\ Len(reported) > stmts[i].rep

\* C11: a syntax error in the middle of a statement sets the error state, no
\* further message is printed while the error state lasts (until the
\* recovery at a boundary keyword or at end-of-input), and the compile call
\* in which a message was printed does not abort.
C11_SyntaxErrorRecovers ==
  [][pc = "compile" =>
       /\ (reported' # reported => is_in_error_state')
       /\ (is_in_error_state => reported' = reported)
       /\ (ErrorInThisCall => pc' # "aborted")]_vars

IndexedOps == {"Constant", "DefineGlobalVariable", "AccessGlobalVariable"}

IndicesInRange(c, ops) ==
  \A i \in DOMAIN c.code : c.code[i].op \in ops => c.code[i].idx < Len(c.constants)

\* C12: in the chunk compile returned, after any number of compile calls,
\* every index carried by a Constant, DefineGlobalVariable or
\* AccessGlobalVariable instruction is smaller than constants.len().
C12_IndicesInRange == pc \in {"run", "returned"} => IndicesInRange(runChunk, IndexedOps)

\* the second compile call has returned a chunk with indexed instructions of
\* both calls
C12_Witness ==
  /\ pc = "run"
  /\ reads = 2
  /\ \E i, j \in DOMAIN runChunk.code :
       /\ i <= compileBase /\ compileBase < j
       /\ runChunk.code[i].op \in IndexedOps
       /\ runChunk.code[j].op \in IndexedOps

\* C13: after any sequence of write and write_constant calls lines is as
\* long as code, and entry i of lines is the line passed with instruction i.
C13_LinesParallelCode ==
  pc = "build" =>
    /\ Len(chunk.lines) = Len(chunk.code)
    /\ Len(chunk.code) = Len(calls)
    /\ \A i \in DOMAIN calls :
         /\ chunk.lines[i] = calls[i].line
         /\ chunk.code[i].op = (IF calls[i].ctor = "" THEN calls[i].opcode.op
                                ELSE calls[i].ctor)

\* a write and a write_constant were called with different lines
C13_Witness ==
  /\ pc = "build"
  /\ \E i, j \in DOMAIN calls :
       calls[i].ctor = "" /\ calls[j].ctor # "" /\ calls[i].line # calls[j].line

\* C14: a write_constant call appends its value at the end of constants and
\* one instruction whose operand is the position of that value; no call
\* moves or changes a constant already in the pool.
C14_ConstantsAppendOnly ==
  [][pc = "build" /\ pc' = "build" =>
       /\ \A i \in DOMAIN chunk.constants :
            i \in DOMAIN chunk'.constants /\ chunk'.constants[i] = chunk.constants[i]
       /\ LET call == calls'[Len(calls')] IN
          call.ctor # "" =>
            /\ chunk'.constants = Append(chunk.constants, call.value)
            /\ chunk'.code = Append(chunk.code, OpIdx(call.ctor, Len(chunk.constants)))
            /\ chunk'.constants[chunk'.code[Len(chunk'.code)].idx + 1] = call.value]_vars

\* write_constant was called on a chunk that already held a constant
C14_Witness ==
  /\ pc = "build"
  /\ calls # << >>
  /\ calls[Len(calls)].ctor # ""
  /\ Len(chunk.constants) >= 2

\* C15: a run ends with Ok in exactly two ways: the instruction pointer has
\* reached code.len(), or a Return is executed; the Return ends the run at
\* once with the top of the stack, or with no value when the stack is empty,
\* so a run still going has executed no Return.
C15_RunEndsTwoWays ==
  [][pc = "run" =>
       /\ \A j \in DOMAIN executed : runChunk.code[executed[j] + 1].op # "Return"
       /\ (Fetching /\ Instruction.op = "Return" =>
             /\ pc' = "returned"
             /\ result' = (IF stack = << >> THEN Ok(None) ELSE Ok(Some(stack[Len(stack)])))
             /\ ip' = ip + 1)
       /\ (~Fetching => pc' = "returned" /\ result'.tag = "Ok")
       /\ (pc' = "returned" /\ result'.tag = "Ok" =>
             ~Fetching \/ Instruction.op = "Return")]_vars

\* a Return has returned the top of the stack with instructions left after it
C15_Witness ==
  /\ pc = "returned"
  /\ executed # << >>
  /\ runChunk.code[executed[Len(executed)] + 1].op = "Return"
  /\ result.tag = "Ok"
  /\ result.some
  /\ ip < Len(runChunk.code)

\* the offsets of the rows printed so far
Offsets == [i \in DOMAIN listing |-> listing[i].offset]

Disassembling == pc \in {"disassemble", "disassembled", "aborted"}

\* the disassembler has visited the offsets 0, 1, .. in order, one row each,
\* without a panic, and returns when it has visited code.len() of them
VisitsInOrder ==
  /\ panic = "none"
  /\ Offsets = [i \in 1..offset |-> i - 1]
  /\ offset <= Len(chunk.code)
  /\ (pc = "disassembled" => offset = Len(chunk.code))

\* C16, as stated: disassembling any chunk built by write and write_constant
\* visits the offsets 0 .. code.len() - 1 in order and reads no entry of
\* lines or of constants out of range.
C16_DisassembleAnyChunk == Disassembling => VisitsInOrder

\* C16, amended: disassembling a chunk in which every index carried by a
\* Constant or a DefineGlobalVariable instruction is smaller than
\* constants.len() visits the offsets 0 .. code.len() - 1 in order, one
\* instruction each, and reads no entry of lines or of constants out of range.
C16_DisassembleInRange ==
  (Disassembling /\ IndicesInRange(chunk, {"Constant", "DefineGlobalVariable"}))
    => VisitsInOrder

\* a chunk with a Constant appended by write, its index in range, has been
\* disassembled to its end
C16_Witness ==
  /\ pc = "disassembled"
  /\ IndicesInRange(chunk, {"Constant", "DefineGlobalVariable"})
  /\ \E i \in DOMAIN calls : calls[i].ctor = "" /\ calls[i].opcode.op = "Constant"
  /\ \E i \in DOMAIN listing : listing[i].indexed /\ listing[i].same

\* the stack's length when the current run began
StartDepth == IF executed = << >> THEN Len(stack) ELSE depths[1]

\* run stands at the end of statement i, compiled without a message
AtCleanBoundary(i) ==
  /\ pc = "run"
  /\ executed # << >>
  /\ ~stmts[i].open
  /\ stmts[i].clean
  /\ ip = stmts[i].to

\* C17: when run reaches the end of a statement compiled without a syntax
\* error, the stack is as long as when the run began, and as long as when
\* the statement's first instruction was fetched.
C17_StatementsKeepDepth ==
  \A i \in DOMAIN stmts :
    AtCleanBoundary(i) =>
      /\ Len(stack) = StartDepth
      /\ \A j \in DOMAIN executed : executed[j] = stmts[i].from => Len(stack) = depths[j]

\* run has executed two statements of one compile call and stands at the end
\* of the second
C17_Witness ==
  \E i \in DOMAIN stmts :
    /\ AtCleanBoundary(i)
    /\ stmts[i].from > compileBase
    /\ \E j \in DOMAIN executed : j > 1 /\ executed[j] = stmts[i].from

ConsumeTags == {"Let", "Identifier", "Assign", "Print", "Number", "RightParen", "Eof"}

\* the tokens let_declaration's calls of consume match, of Let, Identifier, Assign
LetMatched ==
  IF tokens[position + 2].type # "Identifier" THEN 1
  ELSE IF tokens[position + 3].type # "Assign" THEN 2
  ELSE 3

\* C18: consume(expected) looks at the tag of the current token only; on a
\* match the cursor moves by exactly one and the token is returned; on a
\* mismatch the cursor stays, the error flag is set and nothing is returned.
\* let_declaration's calls move the cursor by the number of tokens matched.
C18_ConsumeContract ==
  [][pc = "compile" /\ InRange(S) =>
       /\ \A expected \in ConsumeTags :
            LET r == consume(S, expected) IN
            IF TokenAt(S).type = expected
              THEN /\ r.some
                   /\ r.token = tokens[position + 1]
                   /\ r.s = [S EXCEPT !.position = position + 1]
              ELSE /\ ~r.some
                   /\ r.s.err
                   /\ r.s.position = position
                   /\ r.s.tokens = tokens /\ r.s.chunk = chunk /\ r.s.frames = frames
       /\ (InHandler("let_declaration", 0) =>
             /\ position' = position + LetMatched
             /\ is_in_error_state' = (LetMatched < 3))]_vars

\* let_declaration's consume(Assign) met the Number of "let x 5"
C18_Witness ==
  /\ pc = "compile"
  /\ tokens = Src_LetNoAssign
  /\ position = 2
  /\ is_in_error_state
  /\ reported # << >>
  /\ reported[Len(reported)] = ExpectedMessage("Assign", N5)

\* C19: between two synchronizations, and between the start of compile and
\* the first, at most one message is printed, the first error raised; an
\* error raised while the flag is set prints nothing and leaves the
\* compiler's fields as they are.
C19_CascadeSuppressed ==
  [][pc = "compile" =>
       /\ Len(reported') - reportedAtSync' <= 1
       /\ is_in_error_state = (Len(reported) = reportedAtSync + 1)
       /\ (reported' # reported => ~is_in_error_state /\ Len(reported) = reportedAtSync)
       /\ ((/\ InHandler("parse_precedence", 0)
            /\ is_in_error_state
            /\ InRange(S)
            /\ TokenAt(S).type \notin DOMAIN prefix_parselets)
             => /\ reported' = reported
                /\ is_in_error_state'
                /\ position' = position
                /\ chunk' = chunk
                /\ tokens' = tokens)]_vars

\* "let x": the expression after the missing = raised an error that was dropped
C19_Witness ==
  /\ tokens = Src_LetX
  /\ InHandler("let_declaration", 1)
  /\ is_in_error_state
  /\ reported # << >>
  /\ reported[Len(reported)] = ExpectedMessage("Assign", Eof)
  /\ Len(reported) = reportedAtSync + 1

\* C20: a DefineGlobalVariable executed on a stack that holds a value binds
\* the identifier its constant names to the top of the stack and pops it:
\* the stack loses exactly its top, the other bindings keep their values,
\* and a binding of the same name is overwritten.
C20_DefineGlobalBindsAndPops ==
  [][(Fetching /\ Instruction.op = "DefineGlobalVariable" /\ stack # << >>) =>
       LET key == StringKey(runChunk.constants[Instruction.idx + 1].name) IN
       /\ pc' = "run"
       /\ stack' = SubSeq(stack, 1, Len(stack) - 1)
       /\ DOMAIN globals' = DOMAIN globals \cup {key}
       /\ globals'[key] = stack[Len(stack)]
       /\ \A k \in DOMAIN globals \ {key} : globals'[k] = globals[k]]_vars

\* x, bound to 1, has been defined again with 2
C20_Witness ==
  /\ pc = "run"
  /\ Len(executed) = 4
  /\ Len(runChunk.code) = 4
  /\ Len(runChunk.constants) = 4
  /\ runChunk.code[2].op = "DefineGlobalVariable"
  /\ runChunk.code[4].op = "DefineGlobalVariable"
  /\ runChunk.constants[1] = Number(1, 1)
  /\ runChunk.constants[2] = Identifier(<<"x">>)
  /\ runChunk.constants[4] = Identifier(<<"x">>)
  /\ globals = [k \in {KeyX} |-> Number(2, 1)]

----------------------------------------------------------------------------
(* Arithmetic, the kinds of constants, termination, the cursor, the session *)

ArithOps == {"Add", "Subtract", "Multiply", "Divide"}

Finite(n) == n.tag = "Number" /\ n.den > 0

\* r is the number a op b, by cross-multiplication of the fractions
IsResult(op, a, b, r) ==
  /\ Finite(r)
  /\ CASE op = "Add" -> r.num * (a.den * b.den) = (a.num * b.den + b.num * a.den) * r.den
       [] op = "Subtract" -> r.num * (a.den * b.den) = (a.num * b.den - b.num * a.den) * r.den
       [] op = "Multiply" -> r.num * (a.den * b.den) = (a.num * b.num) * r.den
       [] op = "Divide" -> r.num * (a.den * b.num) = (a.num * b.den) * r.den

\* C21: an arithmetic instruction on two numbers takes the top of the stack
\* as its right operand b and the value under it as its left operand a, and
\* puts a op b in their place: Subtract gives a - b and Divide a / b, and
\* the stack is one shorter.
C21_BinaryOperandOrder ==
  [][(/\ Fetching
      /\ Instruction.op \in ArithOps
      /\ Len(stack) >= 2
      /\ stack[Len(stack)].tag = "Number"
      /\ stack[Len(stack) - 1].tag = "Number") =>
       LET b == stack[Len(stack)]
           a == stack[Len(stack) - 1]
       IN /\ pc' = "run"
          /\ Len(stack') = Len(stack) - 1
          /\ SubSeq(stack', 1, Len(stack') - 1) = SubSeq(stack, 1, Len(stack) - 2)
          /\ stack'[Len(stack')].tag = "Number"
          /\ ((Finite(a) /\ Finite(b) /\ (Instruction.op = "Divide" => b.num # 0))
                => IsResult(Instruction.op, a, b, stack'[Len(stack')]))]_vars

\* 1 was pushed, then 2, and Subtract has left -1
C21_Witness ==
  /\ pc = "run"
  /\ Len(executed) = 3
  /\ runChunk.constants = <<Number(1, 1), Number(2, 1)>>
  /\ Len(runChunk.code) = 3
  /\ runChunk.code[3].op = "Subtract"
  /\ stack = <<Number(-1, 1)>>

\* the constants the indexed instructions of c name are of the kind they need
ConstantKinds(c) ==
  \A i \in DOMAIN c.code :
    /\ c.code[i].op \in {"DefineGlobalVariable", "AccessGlobalVariable"}
         => c.constants[c.code[i].idx + 1].tag = "Identifier"
    /\ c.code[i].op = "Constant" => c.constants[c.code[i].idx + 1].tag = "Number"

\* C22: in the chunk compile returned the constant of a DefineGlobalVariable
\* or AccessGlobalVariable is an Identifier and the constant of a Constant is
\* a Number; no Identifier is on the stack, bound in the global table or
\* printed.
C22_IdentifierNeverAValue ==
  /\ pc \in {"run", "returned"} => ConstantKinds(runChunk)
  /\ \A i \in DOMAIN stack : stack[i].tag # "Identifier"
  /\ \A k \in DOMAIN globals : globals[k].tag # "Identifier"
  /\ \A i \in DOMAIN output : output[i].tag # "Identifier"

\* a run of a chunk with a Constant, a DefineGlobalVariable and an
\* AccessGlobalVariable has bound a global
C22_Witness ==
  /\ pc = "returned"
  /\ globals # EmptyGlobals
  /\ \A o \in IndexedOps : \E i \in DOMAIN runChunk.code : runChunk.code[i].op = o

\* C23: compile terminates: each pass of its loop that does not return
\* matches its statement further along the tokens than the pass before.
C23_LoopMovesCursor ==
  \A i \in DOMAIN stmts :
    (i > 1 /\ stmts[i].read = stmts[i - 1].read) => stmts[i].pos > stmts[i - 1].pos

\* C24: for tokens that end with Eof, and hold no other Eof, the cursor is
\* an index of tokens and no Eof lies before it: no handler reads a token
\* out of range.
C24_CursorInRange ==
  /\ panic # "index out of bounds"
  /\ tokens # << >> =>
       /\ position < Len(tokens)
       /\ \A i \in 1..position : tokens[i].type # "Eof"

\* "let 5": recovery has skipped to Eof and compile has returned there
C24_Witness ==
  /\ pc = "run"
  /\ tokens = Src_LetNoName
  /\ reported # << >>
  /\ position = Len(tokens) - 1

\* the indexes of the instructions the current compile call wrote
EmittedIndexes == [i \in 1..(Len(runChunk.code) - compileBase) |-> compileBase + i - 1]

AllOk == \A i \in DOMAIN results : results[i] = "Ok"

\* C25: while every earlier run of the session has ended with Ok, a run
\* executes the instructions its compile call wrote, from the first, each
\* once and in order, and has executed them all when it ends with Ok.
C25_RunExecutesItsInput ==
  (pc \in {"run", "returned"} /\ AllOk) =>
    /\ Len(executed) <= Len(EmittedIndexes)
    /\ executed = SubSeq(EmittedIndexes, 1, Len(executed))
    /\ (pc = "returned" /\ result.tag = "Ok") => executed = EmittedIndexes

\* the second run of a session has ended with Ok after the first did
C25_Witness ==
  /\ pc = "returned"
  /\ reads = 2
  /\ results = <<"Ok">>
  /\ result.tag = "Ok"
  /\ compileBase > 0
  /\ executed # << >>

\* C26: the run after a run that returned RuntimeError executes only
\* instructions of its own input.
C26_FailedInputNotResumed ==
  (pc = "run" /\ results # << >> /\ results[Len(results)] = "RuntimeError") =>
    \A j \in DOMAIN executed : executed[j] >= compileBase

\* C27: the run of the first chunk compile returns, on the fresh Vm, finds
\* a value on the stack at every Print, Negate and DefineGlobalVariable and
\* two at every arithmetic instruction.
C27_NoPopOfEmptyStack ==
  (reads = 1 /\ Fetching) =>
    /\ Instruction.op \in {"Print", "Negate", "DefineGlobalVariable"} => stack # << >>
    /\ Instruction.op \in ArithOps => Len(stack) >= 2

====
